---- MODULE Spec2Model ----
(***************************************************************************)
(* Model of the video-upscaling feature module of better-niconico           *)
(* (src/content/features/videoUpscaling.ts, first revision in the file).    *)
(*                                                                         *)
(* The page runs on one JavaScript execution context.  A task (a timer,    *)
(* an event, a host-page script, a settings callback that calls apply)     *)
(* runs to completion and is followed by the microtask checkpoint, which   *)
(* runs every continuation whose promise is already settled, in FIFO       *)
(* order, before the next task starts.  One action is therefore one task   *)
(* with its checkpoint.  An async function is cut at its awaits: a         *)
(* continuation that waits for the browser (requestAdapter, media events   *)
(* and timers, render) is resumed by a later task.                         *)
(***************************************************************************)
EXTENDS Integers, Sequences, FiniteSets, TLC

(* ---------------------------- bounds ----------------------------------- *)
\* start sequences (enableUpscaling invocations) in flight at the same time
MaxSeqs == 2
\* pending settle-delay timers of each kind
MaxTimers == 1
\* applySettings() calls of the body observer awaiting loadSettings()
MaxPending == 2
\* distinct non-empty media sources a video element may carry (src in 0..MaxSrc)
MaxSrc == 2
\* fullscreenchange listeners registered, video observers connected
MaxListeners == 2
\* deliveries of a waiter's result, registrations and outcomes of an attempt
\* are counted up to
MaxCount == 2

(* ------------------------ program constants ---------------------------- *)
UPSCALING_ACTIVE == "active"
UPSCALING_INACTIVE == "inactive"
\* HTMLMediaElement.HAVE_METADATA
HAVE_METADATA == 1
\* waitForVideoReady: const maxRetries = 3
maxRetries == 3

(* ----------------------------- the DOM --------------------------------- *)
\* the video elements of the page, in document order v1 < v2
Videos == {"v1", "v2"}
NoVideo == "null"
DocOrder == <<"v1", "v2">>
\* src: 0 is the empty string, 1..MaxSrc are media sources; NullSrc is null
Srcs == 0..MaxSrc
NullSrc == -1
\* readyState values that matter: HAVE_NOTHING, HAVE_METADATA, HAVE_ENOUGH_DATA
ReadyStates == {0, 1, 4}
\* where an element is: detached (no parent), in the player root, or in the
\* advertisement container (which is inside the player root)
Places == {"out", "root", "ad"}
\* attribute data-bn-upscaling: absent, 'active' or 'inactive'
Markers == {"absent", UPSCALING_ACTIVE, UPSCALING_INACTIVE}
\* inline style.display: '' or 'none'
Displays == {"", "none"}

\* no overlay canvas in the document
NoCanvas == "none"

VARIABLES
  path,                    \* window.location.pathname: "watch" or "other"
  fullscreenElement,       \* document.fullscreenElement is set
  fsLayout,                \* the 100dvw x 100dvh element is in the player area
  playerArea,              \* the element .grid-area_[player] exists
  gpu,                     \* navigator.gpu exists
  video,                   \* the video elements
  canvasAt,                \* the video the canvas #bn-upscaled-canvas was inserted after
  canvasCount,             \* the number of elements with id bn-upscaled-canvas in the document
  canvasStyle,             \* the video the canvas has its size, style and class from
  webGPUSupportCache,      \* "null", "true" or "false"
  currentVideoSrc,
  currentVideoElement,
  currentEnabled,
  videoObserver,           \* the video MutationObserver is connected
  fullscreenListenerSetup,
  seq,                     \* the enableUpscaling invocations in flight
  timers,                  \* pending setTimeout(enableUpscaling) callbacks: the 100 ms
                           \* one of the fullscreen listener, the 200 ms ones of the observer
  adapterCalls,            \* number of navigator.gpu.requestAdapter() calls
  pipes,                   \* render loops running on the attached canvas
  last,                    \* the step taken last (observation only)
  trip,                    \* progress of apply(false); apply(true); apply(false)
  layout,                  \* the watch-page grid and the state of
                           \* restoreClassicVideoLayout.ts
  nicoRank,                \* the sidebar menu that addNicoRankButton.ts works on
  body,                    \* the MutationObserver of index.ts on document.body: whether
                           \* it is connected, and the applySettings() calls it has
                           \* made that are still awaiting loadSettings()
  waiter,                  \* one call of waitForVideoReady(video, 0) with the
                           \* closures of its attempts: flags, listeners, timers
  fsListeners,             \* fullscreenchange listeners this module has registered
  observers                \* video MutationObservers that are connected

vars == <<path, fullscreenElement, fsLayout, playerArea, gpu, video, canvasAt, canvasCount,
          canvasStyle,
          webGPUSupportCache, currentVideoSrc, currentVideoElement,
          currentEnabled, videoObserver, fullscreenListenerSetup, seq,
          timers, adapterCalls, pipes, last, trip, layout, nicoRank, body,
          waiter, fsListeners, observers>>

\* the program state as one record, so that functions of the source can be
\* written as operators from state to state; mq is the microtask queue of
\* the running task (continuations ready to run, by slot), full records that
\* a handler needed more invocations in flight or timers than the bounds allow
Cur ==
  [path |-> path, fullscreenElement |-> fullscreenElement, fsLayout |-> fsLayout,
   playerArea |-> playerArea, gpu |-> gpu, video |-> video, canvasAt |-> canvasAt,
   canvasCount |-> canvasCount, canvasStyle |-> canvasStyle,
   webGPUSupportCache |-> webGPUSupportCache, currentVideoSrc |-> currentVideoSrc,
   currentVideoElement |-> currentVideoElement, currentEnabled |-> currentEnabled,
   videoObserver |-> videoObserver,
   fullscreenListenerSetup |-> fullscreenListenerSetup, seq |-> seq, mq |-> <<>>,
   timers |-> timers, adapterCalls |-> adapterCalls,
   pipes |-> pipes, full |-> FALSE, layout |-> layout, nicoRank |-> nicoRank,
   body |-> body, waiter |-> waiter, fsListeners |-> fsListeners,
   observers |-> observers]

Commit(S) ==
  /\ path' = S.path
  /\ fullscreenElement' = S.fullscreenElement
  /\ fsLayout' = S.fsLayout
  /\ playerArea' = S.playerArea
  /\ gpu' = S.gpu
  /\ video' = S.video
  /\ canvasAt' = S.canvasAt
  /\ canvasCount' = S.canvasCount
  /\ canvasStyle' = S.canvasStyle
  /\ webGPUSupportCache' = S.webGPUSupportCache
  /\ currentVideoSrc' = S.currentVideoSrc
  /\ currentVideoElement' = S.currentVideoElement
  /\ currentEnabled' = S.currentEnabled
  /\ videoObserver' = S.videoObserver
  /\ fullscreenListenerSetup' = S.fullscreenListenerSetup
  /\ seq' = S.seq
  /\ timers' = S.timers
  /\ adapterCalls' = S.adapterCalls
  /\ pipes' = S.pipes
  /\ layout' = S.layout
  /\ nicoRank' = S.nicoRank
  /\ body' = S.body
  /\ waiter' = S.waiter
  /\ fsListeners' = S.fsListeners
  /\ observers' = S.observers

(* ----------------- addNicoRankButton.ts: the sidebar menu --------------- *)
\* the elements of the sidebar menu in document order:
\*   rank   a menu item (.css-1i3qj3a or .css-gzpr6t) holding one ranking link
\*   rank2  a menu item holding two ranking links
\*   bare   a ranking link that is in no menu item
\*   other  a menu item without a ranking link
\*   cont   the element marked data-bn-nico-rank-container, holding the link
\*          marked data-bn-nico-rank-button
\* nicoRank.content tells whether an element .simplebar-content exists;
\* runs and pure are observations: the number of apply(true) calls in a row
\* (capped at 2), and that the host has not touched the menu since the
\* document last held no marked element
MaxItems == 3
RankingParents == {"rank", "rank2"}
HostItems == {"rank", "rank2", "bare", "other"}
CONTAINER_MARKER == "cont"

SidebarWith(content, items) ==
  [content |-> content, items |-> items, runs |-> 0, pure |-> TRUE]
NoSidebar == SidebarWith(FALSE, <<>>)

isVideoTopPage(S) == S.path = "video_top"

getSidebarContainer(S) == S.nicoRank.content

\* the number of ranking links (a.css-1i9dz1a, text and href of the ranking
\* page) in an element; the link of the added button is none
RankingLinks(k) == IF k = "rank2" THEN 2 ELSE IF k \in {"rank", "bare"} THEN 1 ELSE 0

\* a check that never finds the button
hasButtonAfterRankingNever(items, i) == FALSE

\* hasButtonAfterRanking(rankingParent), the parent being items[i] (lines 68-77)
hasButtonAfterRanking(items, i) ==
  /\ i < Len(items)
  /\ items[i + 1] = CONTAINER_MARKER

\* insertBefore(menuContainer, nextSibling) or appendChild (lines 216-221)
InsertContainerAfter(items, i) ==
  SubSeq(items, 1, i) \o <<CONTAINER_MARKER>> \o SubSeq(items, i + 1, Len(items))

\* the loop over the ranking links in document order (lines 196-224): n links
\* of items[i] are still to be handled
RECURSIVE AddButtons(_, _, _)
AddButtons(items, i, n) ==
  IF i > Len(items) THEN items
  ELSE IF n = 0
       THEN IF i < Len(items) THEN AddButtons(items, i + 1, RankingLinks(items[i + 1]))
            ELSE items
  ELSE IF items[i] \notin RankingParents \/ hasButtonAfterRanking(items, i)
       THEN AddButtons(items, i, n - 1)
  ELSE AddButtons(InsertContainerAfter(items, i), i, n - 1)

\* addAllNicoRankButtons() (lines 179-229)
addAllNicoRankButtons(S) ==
  IF ~isVideoTopPage(S) THEN S
  ELSE IF ~getSidebarContainer(S) THEN S
  ELSE IF S.nicoRank.items = <<>> THEN S
  ELSE [S EXCEPT !.nicoRank.items = AddButtons(@, 1, RankingLinks(@[1]))]

\* removeNicoRankButton() (lines 234-245)
removeNicoRankButton(S) ==
  [S EXCEPT !.nicoRank.items = SelectSeq(@, LAMBDA k : k # CONTAINER_MARKER)]

\* apply(enabled) of addNicoRankButton.ts (lines 251-258)
applyNicoRank(S, enabled) ==
  IF enabled THEN addAllNicoRankButtons(S) ELSE removeNicoRankButton(S)

(* ------------------- start sequences in flight ------------------------- *)
Slots == 1..MaxSeqs
\* pc of a slot:
\*   idle      no invocation
\*   mt_probe  await isWebGPUSupported() settled, continuation in mq
\*   w_adapter isWebGPUSupported awaits navigator.gpu.requestAdapter()
\*   mt_ready  await waitForVideoReady() settled, continuation in mq
\*   w_ready   waitForVideoReady attempt: listeners and 10 s timer pending
\*   w_settle  waitForVideoReady handler ran, 100 ms timer pending
\*   w_render  await render(...) pending
Pcs == {"idle", "mt_probe", "w_adapter", "mt_ready", "w_ready", "w_settle", "w_render"}
IdleSeq == [pc |-> "idle", video |-> NoVideo, retry |-> 0, res |-> "ok",
            live |-> FALSE, sup |-> FALSE]

InFlight(S) == {i \in Slots : S.seq[i].pc # "idle"}
FreeSlots(S) == {i \in Slots : S.seq[i].pc = "idle"}
FreeSlot(S) == CHOOSE i \in FreeSlots(S) : \A j \in FreeSlots(S) : i <= j

\* observation: every invocation in flight has been superseded by a later request
Supersede(S) ==
  [S EXCEPT !.seq = [i \in Slots |->
      IF S.seq[i].pc = "idle" THEN S.seq[i] ELSE [S.seq[i] EXCEPT !.sup = TRUE]]]

(* --------------------- functions of the source ------------------------- *)
\* the body observer of index.ts (lines 107-120): not connected, nothing pending
NoBodyObserver == [observing |-> FALSE, pending |-> 0]

\* a node has been added under document.body: the observer, if connected,
\* calls applySettings(), which awaits loadSettings() (index.ts lines 107-115)
NodeAdded(S) ==
  IF ~S.body.observing THEN S
  ELSE IF S.body.pending >= MaxPending THEN [S EXCEPT !.full = TRUE]
  ELSE [S EXCEPT !.body.pending = @ + 1]

isWatchPage(S) == S.path = "watch"

isFullscreenMode(S) ==
  \/ S.fullscreenElement
  \/ S.playerArea /\ S.fsLayout

isAdVideo(S, v) == S.video[v].where = "ad"

\* a validity test that forgets the advertisement container
isValidContentVideoAdsToo(S, v) ==
  /\ S.video[v].src # 0
  /\ S.video[v].dims

isValidContentVideo(S, v) ==
  /\ S.video[v].src # 0
  /\ S.video[v].dims
  /\ ~isAdVideo(S, v)

\* the videos playerArea.querySelectorAll('video') returns
InPlayerArea(S, v) == S.playerArea /\ S.video[v].where \in {"root", "ad"}

\* a loop that lets a later element win a tie
RECURSIVE BestVideoLastWins(_, _, _, _)
BestVideoLastWins(S, k, bestVideo, bestReadyState) ==
  IF k > Len(DocOrder) THEN bestVideo
  ELSE LET v == DocOrder[k] IN
       IF /\ InPlayerArea(S, v)
          /\ isValidContentVideo(S, v)
          /\ S.video[v].readyState >= bestReadyState
       THEN BestVideoLastWins(S, k + 1, v, S.video[v].readyState)
       ELSE BestVideoLastWins(S, k + 1, bestVideo, bestReadyState)

\* the loop of getVideoElement from position k on, with the best found so far
RECURSIVE BestVideo(_, _, _, _)
BestVideo(S, k, bestVideo, bestReadyState) ==
  IF k > Len(DocOrder) THEN bestVideo
  ELSE LET v == DocOrder[k] IN
       IF /\ InPlayerArea(S, v)
          /\ isValidContentVideo(S, v)
          /\ S.video[v].readyState > bestReadyState
       THEN BestVideo(S, k + 1, v, S.video[v].readyState)
       ELSE BestVideo(S, k + 1, bestVideo, bestReadyState)

getVideoElement(S) ==
  IF ~S.playerArea THEN NoVideo ELSE BestVideo(S, 1, NoVideo, -1)

hasVideoChanged(S, v) ==
  IF v = NoVideo
  THEN S.currentVideoElement # NoVideo \/ S.currentVideoSrc # NullSrc
  ELSE \/ S.currentVideoElement # v
       \/ S.currentVideoSrc # S.video[v].src

\* canvas.remove(): the render loops drawing into the canvas stop
\* document.getElementById(CANVAS_ID): the position of the surface, if any
getCanvasById(S) == IF S.canvasCount = 0 THEN NoCanvas ELSE S.canvasAt

RemoveCanvas(S) ==
  IF getCanvasById(S) = NoCanvas THEN S
  ELSE [S EXCEPT !.canvasAt = IF S.canvasCount = 1 THEN NoCanvas ELSE @,
                 !.canvasStyle = IF S.canvasCount = 1 THEN NoVideo ELSE @,
                 !.canvasCount = @ - 1,
                 !.pipes = 0,
                 !.seq = [i \in Slots |-> [S.seq[i] EXCEPT !.live = FALSE]]]

\* a reset that writes the marker and leaves the style
MarkVideoOnly(vd) == [vd EXCEPT !.marker = UPSCALING_INACTIVE]

\* video.style.display = ''; video.setAttribute(UPSCALING_MARKER, UPSCALING_INACTIVE)
ShowVideo(vd) == [vd EXCEPT !.display = "", !.marker = UPSCALING_INACTIVE]

\* a cleanup that leaves the element it is given as it is
cleanupKeepsVideo(S, v) ==
  LET S1 == RemoveCanvas(S) IN
  [S1 EXCEPT
     !.video = [u \in Videos |->
                  IF u # v /\ InPlayerArea(S1, u) THEN ShowVideo(S1.video[u])
                  ELSE S1.video[u]],
     !.currentVideoElement = NoVideo,
     !.currentVideoSrc = NullSrc]

\* a cleanup that forgets canvas.remove()
cleanupKeepsCanvas(S, v) ==
  [S EXCEPT
     !.video = [u \in Videos |->
                  IF u = v \/ InPlayerArea(S, u) THEN ShowVideo(S.video[u])
                  ELSE S.video[u]],
     !.currentVideoElement = NoVideo,
     !.currentVideoSrc = NullSrc]

cleanupUpscaling(S, v) ==
  LET S1 == RemoveCanvas(S) IN
  [S1 EXCEPT
     !.video = [u \in Videos |->
                  IF u = v \/ InPlayerArea(S1, u) THEN ShowVideo(S1.video[u])
                  ELSE S1.video[u]],
     !.currentVideoElement = NoVideo,
     !.currentVideoSrc = NullSrc]

\* a probe that does not look at the cache
isWebGPUSupportedUncached(S) ==
  IF ~S.gpu
  THEN [cache |-> "false", request |-> FALSE, res |-> "err"]
  ELSE [cache |-> S.webGPUSupportCache, request |-> TRUE, res |-> "ok"]

\* isWebGPUSupported up to its first suspension: the cache after it, whether
\* requestAdapter() was called (the function is then suspended), and the
\* Result it returned otherwise
isWebGPUSupported(S) ==
  IF S.webGPUSupportCache # "null"
  THEN [cache |-> S.webGPUSupportCache, request |-> FALSE, res |-> "ok"]
  ELSE IF ~S.gpu
  THEN [cache |-> "false", request |-> FALSE, res |-> "err"]
  ELSE [cache |-> "null", request |-> TRUE, res |-> "ok"]

\* isWebGPUSupported after requestAdapter() settled with outcome
\* "adapter", "noadapter" (null) or "throw"
AdapterOutcomes == {"adapter", "noadapter", "throw"}
AdapterSettled(outcome) ==
  IF outcome = "adapter"
  THEN [cache |-> "true", res |-> "ok"]
  ELSE [cache |-> "false", res |-> "err"]

\* a waiter without the limit on the retry count
waitForVideoReadyUnlimited(S, v, retryCount) ==
  IF S.video[v].readyState >= HAVE_METADATA /\ S.video[v].dims THEN "ok"
  ELSE "wait"

\* waitForVideoReady(video, retryCount) up to its first suspension:
\* "ok", "err", or "wait" (listeners and timeout registered)
waitForVideoReady(S, v, retryCount) ==
  IF S.video[v].readyState >= HAVE_METADATA /\ S.video[v].dims THEN "ok"
  ELSE IF retryCount >= maxRetries THEN "err"
  ELSE "wait"

(* ------- waitForVideoReady: the closures of one call, attempt by attempt ---- *)
\* the events the handler is registered for
Events == {"loadedmetadata", "loadeddata"}
\* the retry counts with which a call can wait
Attempts == 0..(maxRetries - 1)

\* one attempt (one promise executor, lines 300-342): its flag resolved, the
\* events its handler is registered for, whether its 10 s timer and its 100 ms
\* timer are pending; started counts the calls that registered it, outcomes
\* the times its handler or its timeout went past the flag
NoAttempt ==
  [resolved |-> FALSE, listeners |-> {}, timeout |-> FALSE, settle |-> FALSE,
   started |-> 0, outcomes |-> 0]

\* no call made: video is the element of the call, delivered counts the calls of
\* resolve that reach the promise the start sequence awaits, result is the
\* first value delivered
IdleWaiter ==
  [video |-> NoVideo, att |-> [n \in Attempts |-> NoAttempt],
   delivered |-> 0, result |-> "none"]

Bump(n) == IF n < MaxCount THEN n + 1 ELSE n

\* resolve(...) of an attempt; the attempts before it pass the value on with
\* .then(resolve)
Deliver(S, r) ==
  [S EXCEPT !.waiter.delivered = Bump(@),
            !.waiter.result = IF @ = "none" THEN r ELSE @]

\* the call waitForVideoReady(video, n): it returns at once, or registers the
\* handler for both events and the 10 s timer (lines 287-297, 324-341)
waitAttempt(S, n) ==
  LET w == waitForVideoReady(S, S.waiter.video, n) IN
  IF w = "wait"
  THEN [S EXCEPT !.waiter.att[n].resolved = FALSE,
                 !.waiter.att[n].listeners = Events,
                 !.waiter.att[n].timeout = TRUE,
                 !.waiter.att[n].started = Bump(@)]
  ELSE Deliver(S, w)

\* lines 313-319 and 334-340: the retry, or the error at the last retry count
retryWait(S, n) ==
  IF n < maxRetries THEN waitAttempt(S, n + 1) ELSE Deliver(S, "err")

\* lines 303-321: the handler of attempt n, up to its setTimeout
handler(S, n) ==
  IF S.waiter.att[n].resolved THEN S
  ELSE [S EXCEPT !.waiter.att[n].resolved = TRUE,
                 !.waiter.att[n].listeners = {},
                 !.waiter.att[n].settle = TRUE,
                 !.waiter.att[n].outcomes = Bump(@)]

\* lines 310-320: the 100 ms callback of attempt n
onSettle(S, n) ==
  LET T == [S EXCEPT !.waiter.att[n].settle = FALSE] IN
  IF T.video[T.waiter.video].dims THEN Deliver(T, "ok") ELSE retryWait(T, n)

\* a 10 s callback that does not look at the flag
onReadyTimeoutUnguarded(S, n) ==
  retryWait([S EXCEPT !.waiter.att[n].timeout = FALSE,
                      !.waiter.att[n].resolved = TRUE,
                      !.waiter.att[n].listeners = {},
                      !.waiter.att[n].outcomes = Bump(@)], n)

\* lines 328-341: the 10 s callback of attempt n
onReadyTimeout(S, n) ==
  LET T == [S EXCEPT !.waiter.att[n].timeout = FALSE] IN
  IF T.waiter.att[n].resolved THEN T
  ELSE retryWait([T EXCEPT !.waiter.att[n].resolved = TRUE,
                           !.waiter.att[n].listeners = {},
                           !.waiter.att[n].outcomes = Bump(@)], n)

\* the element dispatches event e: the handlers registered for it run, from
\* attempt n on
RECURSIVE DispatchMedia(_, _, _)
DispatchMedia(S, e, n) ==
  IF n >= maxRetries THEN S
  ELSE DispatchMedia(IF e \in S.waiter.att[n].listeners THEN handler(S, n) ELSE S,
                     e, n + 1)

\* a createUpscaledCanvas that inserts a new canvas whatever the document holds
createUpscaledCanvasAlways(S, v) ==
  IF S.video[v].where = "out" THEN [ok |-> FALSE, S |-> S]
  ELSE IF ~S.video[v].dims THEN [ok |-> FALSE, S |-> S]
  ELSE [ok |-> TRUE,
        S |-> NodeAdded([S EXCEPT !.canvasAt = v, !.canvasCount = @ + 1,
                                  !.canvasStyle = v])]

\* a createUpscaledCanvas that tests the dimensions after it has sized the canvas
createUpscaledCanvasLateCheck(S, v) ==
  IF S.video[v].where = "out" THEN [ok |-> FALSE, S |-> S]
  ELSE LET T == IF getCanvasById(S) # NoCanvas THEN [S EXCEPT !.canvasStyle = v]
                ELSE [S EXCEPT !.canvasAt = v, !.canvasCount = @ + 1,
                               !.canvasStyle = v]
       IN [ok |-> S.video[v].dims, S |-> T]

\* createUpscaledCanvas (lines 214-276): the error result, or ok and the
\* document with the canvas, the existing one if there is one
createUpscaledCanvas(S, v) ==
  IF S.video[v].where = "out" THEN [ok |-> FALSE, S |-> S]
  ELSE IF ~S.video[v].dims THEN [ok |-> FALSE, S |-> S]
  ELSE IF getCanvasById(S) # NoCanvas
  THEN [ok |-> TRUE, S |-> [S EXCEPT !.canvasStyle = v]]
  ELSE [ok |-> TRUE,
        S |-> NodeAdded([S EXCEPT !.canvasAt = v, !.canvasCount = @ + 1,
                                  !.canvasStyle = v])]

(* ------------------------- enableUpscaling ----------------------------- *)
\* lines 387-388: the call of isWebGPUSupported() and the suspension at await
StartSeq(S, v) ==
  IF FreeSlots(S) = {} THEN [S EXCEPT !.full = TRUE]
  ELSE LET i == FreeSlot(S)
           p == isWebGPUSupported(S)
       IN [S EXCEPT
             !.webGPUSupportCache = p.cache,
             !.adapterCalls = IF p.request THEN @ + 1 ELSE @,
             !.seq[i] = [pc |-> IF p.request THEN "w_adapter" ELSE "mt_probe",
                         video |-> v, retry |-> 0, res |-> p.res,
                         live |-> FALSE, sup |-> FALSE],
             !.mq = IF p.request THEN @ ELSE Append(@, i)]

\* lines 371-379: the located video differs from the recorded one
ResetOnChange(S, v) ==
  IF hasVideoChanged(S, v)
  THEN IF S.currentVideoElement # NoVideo
       THEN Supersede(cleanupUpscaling(S, S.currentVideoElement))
       ELSE [S EXCEPT !.currentVideoElement = NoVideo, !.currentVideoSrc = NullSrc]
  ELSE S

\* an enableUpscaling without the marker check of lines 383-385
enableUpscalingUnmarked(S) ==
  IF ~isWatchPage(S) THEN S
  ELSE IF isFullscreenMode(S)
  THEN IF S.currentVideoElement # NoVideo
       THEN cleanupUpscaling(S, S.currentVideoElement)
       ELSE S
  ELSE LET v == getVideoElement(S) IN
       IF v = NoVideo THEN S
       ELSE StartSeq(ResetOnChange(S, v), v)

\* an enableUpscaling that schedules another attempt when it finds no video
enableUpscalingPolling(S) ==
  IF ~isWatchPage(S) THEN S
  ELSE IF isFullscreenMode(S)
  THEN IF S.currentVideoElement # NoVideo
       THEN cleanupUpscaling(S, S.currentVideoElement)
       ELSE S
  ELSE LET v == getVideoElement(S) IN
       IF v = NoVideo THEN [S EXCEPT !.timers = @ + 1]
       ELSE LET S1 == ResetOnChange(S, v) IN
            IF S1.video[v].marker = UPSCALING_ACTIVE THEN S1
            ELSE StartSeq(S1, v)

\* enableUpscaling from its call to its first await (lines 348-388)
enableUpscaling(S) ==
  IF ~isWatchPage(S) THEN S
  ELSE IF isFullscreenMode(S)
  THEN IF S.currentVideoElement # NoVideo
       THEN cleanupUpscaling(S, S.currentVideoElement)
       ELSE S
  ELSE LET v == getVideoElement(S) IN
       IF v = NoVideo THEN S
       ELSE LET S1 == ResetOnChange(S, v) IN
            IF S1.video[v].marker = UPSCALING_ACTIVE THEN S1
            ELSE StartSeq(S1, v)

\* the invocation in slot i ends; the others keep their order of start
Rank(S, i, j) == Cardinality({k \in InFlight(S) \ {i} : k <= j})
Finish(S, i) ==
  LET rest == InFlight(S) \ {i} IN
  [S EXCEPT
     !.seq = [n \in Slots |->
                IF n <= Cardinality(rest)
                THEN S.seq[CHOOSE j \in rest : Rank(S, i, j) = n]
                ELSE IdleSeq],
     !.mq = [n \in 1..Len(S.mq) |-> Rank(S, i, S.mq[n])]]

\* the call waitForVideoReady(video, retryCount) made for slot i
CallWait(S, i, retryCount) ==
  LET w == waitForVideoReady(S, S.seq[i].video, retryCount) IN
  IF w = "wait"
  THEN [S EXCEPT !.seq[i].pc = "w_ready", !.seq[i].retry = retryCount]
  ELSE [S EXCEPT !.seq[i].pc = "mt_ready", !.seq[i].retry = retryCount,
                 !.seq[i].res = w, !.mq = Append(@, i)]

\* lines 389-395: after await isWebGPUSupported()
AfterProbe(S, i) ==
  IF S.seq[i].res = "err" THEN Finish(S, i)
  ELSE CallWait(S, i, 0)

\* lines 396-440: after await waitForVideoReady(): canvas, then render() is
\* called; the library builds its pipeline on navigator.gpu, so a render loop
\* comes to life only where that exists
AfterReady(S, i) ==
  IF S.seq[i].res = "err" THEN Finish(S, i)
  ELSE LET c == createUpscaledCanvas(S, S.seq[i].video) IN
       IF ~c.ok THEN Finish(S, i)
       ELSE [c.S EXCEPT
                      !.seq[i].pc = "w_render",
                      !.seq[i].live = S.gpu]

\* lines 442-470: render() settled: "resolve", "abort" (AbortError) or "error"
RenderOutcomes == {"resolve", "abort", "error"}
AfterRender(S, i, outcome) ==
  LET v == S.seq[i].video IN
  IF outcome = "resolve"
  THEN Finish([S EXCEPT !.video[v].display = "none",
                        !.video[v].marker = UPSCALING_ACTIVE,
                        !.currentVideoElement = v,
                        !.currentVideoSrc = S.video[v].src,
                        !.pipes = IF S.seq[i].live THEN @ + 1 ELSE @], i)
  ELSE IF outcome = "abort" THEN Finish(S, i)
  ELSE Finish(cleanupUpscaling(S, v), i)

\* waitForVideoReady: the retry made by the 100 ms callback and by the timeout
RetryWait(S, i) ==
  IF S.seq[i].retry < maxRetries
  THEN CallWait(S, i, S.seq[i].retry + 1)
  ELSE [S EXCEPT !.seq[i].pc = "mt_ready", !.seq[i].res = "err", !.mq = Append(@, i)]

\* waitForVideoReady lines 310-320: the 100 ms callback of the handler
AfterSettle(S, i) ==
  IF S.video[S.seq[i].video].dims
  THEN [S EXCEPT !.seq[i].pc = "mt_ready", !.seq[i].res = "ok", !.mq = Append(@, i)]
  ELSE RetryWait(S, i)

(* ------------------ disable, listeners, observer ----------------------- *)
disableUpscaling(S) == cleanupUpscaling(S, getVideoElement(S))

\* document.addEventListener('fullscreenchange', ...): full when MaxListeners
\* are registered already
AddListener(S) ==
  IF S.fsListeners >= MaxListeners THEN [S EXCEPT !.full = TRUE]
  ELSE [S EXCEPT !.fsListeners = @ + 1, !.fullscreenListenerSetup = TRUE]

\* a setup that registers the listener on every page
setupFullscreenListenerAnywhere(S) ==
  IF S.fullscreenListenerSetup THEN S
  ELSE AddListener(S)

\* a setup that registers a listener whenever it runs on a watch page
setupFullscreenListenerEveryCall(S) ==
  IF ~isWatchPage(S) THEN S
  ELSE AddListener(S)

\* lines 518-545
setupFullscreenListener(S) ==
  IF ~isWatchPage(S) \/ S.fullscreenListenerSetup THEN S
  ELSE AddListener(S)

\* new MutationObserver(...).observe(playerArea, ...): full when MaxListeners
\* are connected already
ConnectObserver(S) ==
  IF S.observers >= MaxListeners THEN [S EXCEPT !.full = TRUE]
  ELSE [S EXCEPT !.observers = @ + 1, !.videoObserver = TRUE]

\* a setup that connects a new observer over the one it has
setupVideoObserverEveryCall(S) ==
  IF ~isWatchPage(S) THEN S
  ELSE IF ~S.playerArea THEN S
  ELSE ConnectObserver(S)

\* lines 551-609
setupVideoObserver(S) ==
  IF ~isWatchPage(S) \/ S.videoObserver THEN S
  ELSE IF ~S.playerArea THEN S
  ELSE ConnectObserver(S)

\* lines 614-619: the observer the variable refers to is disconnected
stopVideoObserver(S) ==
  IF S.videoObserver
  THEN [S EXCEPT !.observers = @ - 1, !.videoObserver = FALSE]
  ELSE S

\* setTimeout(() => void enableUpscaling(), ...); full when MaxTimers are
\* pending already
AddTimer(S) ==
  IF S.timers >= MaxTimers THEN [S EXCEPT !.full = TRUE]
  ELSE [S EXCEPT !.timers = @ + 1]

\* a listener that leaves the session alone when fullscreen is entered
onFullscreenChangeExitOnly(S) ==
  IF S.fullscreenElement THEN S
  ELSE IF S.currentEnabled THEN AddTimer(S) ELSE S

\* a listener that restarts after fullscreen whatever the setting is
onFullscreenChangeAlwaysRestart(S) ==
  IF S.fullscreenElement
  THEN Supersede(IF S.currentVideoElement # NoVideo
                 THEN cleanupUpscaling(S, S.currentVideoElement)
                 ELSE S)
  ELSE AddTimer(S)

\* the fullscreenchange listener (lines 523-541)
onFullscreenChange(S) ==
  IF S.fullscreenElement
  THEN Supersede(IF S.currentVideoElement # NoVideo
                 THEN cleanupUpscaling(S, S.currentVideoElement)
                 ELSE S)
  ELSE IF S.currentEnabled THEN AddTimer(S) ELSE S

\* the video observer's callback for a src attribute mutation (lines 564-578)
onSrcMutation(S, v) ==
  IF isValidContentVideo(S, v) /\ S.currentEnabled
  THEN AddTimer(IF S.currentVideoElement # NoVideo
                   THEN Supersede(cleanupUpscaling(S, S.currentVideoElement))
                   ELSE S)
  ELSE S

\* the video observer's callback for an added video element (lines 581-597)
onVideoAdded(S) ==
  IF S.currentEnabled THEN AddTimer(S) ELSE S

\* the event or mutation record is delivered to each of the n listeners or
\* connected observers, one callback after the other
RECURSIVE FullscreenListeners(_, _)
FullscreenListeners(S, n) ==
  IF n = 0 \/ S.full THEN S ELSE FullscreenListeners(onFullscreenChange(S), n - 1)

RECURSIVE AddedObservers(_, _)
AddedObservers(S, n) ==
  IF n = 0 \/ S.full THEN S ELSE AddedObservers(onVideoAdded(S), n - 1)

RECURSIVE SrcObservers(_, _, _)
SrcObservers(S, v, n) ==
  IF n = 0 \/ S.full THEN S ELSE SrcObservers(onSrcMutation(S, v), v, n - 1)

\* apply(enabled) (lines 625-639)
apply(S, enabled) ==
  LET S0 == [S EXCEPT !.currentEnabled = enabled] IN
  IF enabled
  THEN enableUpscaling(setupVideoObserver(setupFullscreenListener(S0)))
  ELSE stopVideoObserver(Supersede(disableUpscaling(S0)))

(* ------------------- restoreClassicVideoLayout.ts ---------------------- *)
LAYOUT_CLASSIC == "classic"
LAYOUT_DEFAULT == "default"

\* the children of .grid-area_[bottom]; "detail" is the section whose h1 reads
\* '動画の詳細情報'
Sections == {"info", "detail", "ads"}
\* the three kinds of Tailwind grid classes of the grid parent: grid-tr_,
\* grid-template-areas_, grid-tc_
ClassKinds == {"tr", "ta", "tc"}
\* a class of one kind: "std" is the one restoreDefaultLayout adds, "alt" any
\* other class whose name contains the same prefix
ClassTokens == {"std", "alt"}

\* the layout part of the page before the module has touched it
\*   bottom     children of the bottom area, in order
\*   container  #bn-bottom-sections exists;  contained  its children, in order
\*   cls        classList of the grid parent, by kind, in classList order
\*   gridStyle  the inline grid styles of the parent and its items are set
\*   sidebarStyle  the inline styles of the sidebar are set
\*   marker     data-bn-layout of the player area
\*   rt, snap   observation: progress of apply(true); apply(false) and the
\*              bottom area and classes before it
LayoutWith(sidebar, bottom, cls) ==
  [sidebar |-> sidebar, bottom |-> bottom, container |-> FALSE,
   contained |-> <<>>, cls |-> cls, gridStyle |-> FALSE, sidebarStyle |-> FALSE,
   marker |-> "absent", currentEnabled |-> FALSE, listenerSetup |-> FALSE,
   timers |-> 0, rt |-> 0, snap |-> [bottom |-> <<>>, cls |-> cls]]

Range(q) == {q[k] : k \in 1..Len(q)}

\* getDetailInfoSection as restoreClassicLayout uses it: the position of the
\* detail section among the children of the bottom area, 0 if it is not there
getDetailInfoSection(S) ==
  IF "detail" \in Range(S.layout.bottom)
  THEN CHOOSE k \in 1..Len(S.layout.bottom) : S.layout.bottom[k] = "detail"
  ELSE 0

\* classList.remove(classesArray.find(c => c.includes(prefix)))
RemoveFirstClass(q) == IF q = <<>> THEN q ELSE Tail(q)
\* if (!parent.className.includes(prefix)) parent.classList.add(standard)
AddStandardClass(q) == IF q = <<>> THEN <<"std">> ELSE q

\* restoreClassicLayout (lines 75-186)
restoreClassicLayout(S) ==
  LET L == S.layout
      d == getDetailInfoSection(S)
  IN
  IF ~isWatchPage(S) THEN S
  ELSE IF isFullscreenMode(S) THEN S
  ELSE IF ~S.playerArea \/ ~L.sidebar THEN S
  ELSE IF L.marker = LAYOUT_CLASSIC THEN S
  ELSE IF d = 0 THEN S
  ELSE [S EXCEPT
          !.layout.container = TRUE,
          !.layout.contained = L.contained \o SubSeq(L.bottom, d, Len(L.bottom)),
          !.layout.bottom = SubSeq(L.bottom, 1, d - 1),
          !.layout.cls = [k \in ClassKinds |-> RemoveFirstClass(L.cls[k])],
          !.layout.sidebarStyle = TRUE,
          !.layout.gridStyle = TRUE,
          !.layout.marker = LAYOUT_CLASSIC]

\* restoreDefaultLayout (lines 191-257)
restoreDefaultLayout(S) ==
  LET L == S.layout IN
  IF ~isWatchPage(S) THEN S
  ELSE IF ~S.playerArea THEN S
  ELSE IF L.marker = LAYOUT_DEFAULT \/ L.marker = "absent" THEN S
  ELSE [S EXCEPT
          !.layout.bottom = IF L.container THEN L.bottom \o L.contained ELSE L.bottom,
          !.layout.contained = <<>>,
          !.layout.container = FALSE,
          !.layout.cls = [k \in ClassKinds |-> AddStandardClass(L.cls[k])],
          !.layout.gridStyle = FALSE,
          !.layout.sidebarStyle = IF L.sidebar THEN FALSE ELSE L.sidebarStyle,
          !.layout.marker = LAYOUT_DEFAULT]

\* setTimeout(() => restoreClassicLayout(), 100); full when MaxTimers are
\* pending already
AddLayoutTimer(S) ==
  IF S.layout.timers >= MaxTimers THEN [S EXCEPT !.full = TRUE]
  ELSE [S EXCEPT !.layout.timers = @ + 1]

\* a listener that does not revert the layout when fullscreen is entered
onLayoutFullscreenChangeExitOnly(S) ==
  IF S.fullscreenElement THEN S
  ELSE IF S.layout.currentEnabled THEN AddLayoutTimer(S) ELSE S

\* the fullscreenchange listener of the layout module (lines 268-284)
onLayoutFullscreenChange(S) ==
  IF S.fullscreenElement THEN restoreDefaultLayout(S)
  ELSE IF S.layout.currentEnabled THEN AddLayoutTimer(S) ELSE S

\* apply(enabled) of the layout module (lines 293-315)
applyLayout(S, enabled) ==
  LET S0 == [S EXCEPT !.layout.currentEnabled = enabled,
                      !.layout.listenerSetup = @ \/ isWatchPage(S)]
  IN
  IF enabled
  THEN IF isFullscreenMode(S0) THEN S0 ELSE restoreClassicLayout(S0)
  ELSE restoreDefaultLayout(S0)

(* ----------------------------- actions --------------------------------- *)
\* what the last step was, for the steps whose effect is looked at: the
\* operation (apply_false, apply_active for apply(true) over an Active session,
\* fs_enter, fs_exit, timer, render_resolve, render_error, locate; other for
\* the rest); for fs_enter the element recorded
\* as current before it; for a settled render() the element of its invocation
\* and whether the invocation had been superseded; for fs_exit the timers it
\* scheduled; for locate the element returned
Step(op, v, sup, sched) == [op |-> op, v |-> v, sup |-> sup, sched |-> sched]
OtherStep == Step("other", NoVideo, FALSE, 0)

\* the microtask checkpoint: the queued continuations run until none is left
RECURSIVE Drain(_)
Drain(S) ==
  IF S.mq = <<>> \/ S.full THEN S
  ELSE LET i == Head(S.mq)
           T == [S EXCEPT !.mq = Tail(S.mq)]
       IN Drain(IF S.seq[i].pc = "mt_probe" THEN AfterProbe(T, i) ELSE AfterReady(T, i))

\* a continuation leaves the round trip of apply calls as it is once it is complete
TripKept == IF trip = 3 THEN 3 ELSE 0

\* one task: the handler's result N, then the checkpoint (each computed once)
Do(N, st, tr) ==
  /\ \E T \in {N} :
       /\ ~T.full
       /\ \E D \in {Drain(T)} : Commit(D)
  /\ last' = st
  /\ trip' = tr

\* enableUpscaling would locate a video that is recorded as current, with the
\* recorded source, and marked 'active'
ActiveForLocated(S) ==
  /\ isWatchPage(S)
  /\ ~isFullscreenMode(S)
  /\ LET v == getVideoElement(S) IN
       /\ v # NoVideo
       /\ S.currentVideoElement = v
       /\ S.currentVideoSrc = S.video[v].src
       /\ S.video[v].marker = UPSCALING_ACTIVE

\* the exported entry point, called by the settings callback
Apply(enabled) ==
  /\ enabled \in BOOLEAN
  /\ Do(apply(Cur, enabled),
        IF ~enabled THEN Step("apply_false", NoVideo, FALSE, 0)
        ELSE IF ActiveForLocated(Cur)
        THEN Step("apply_active", currentVideoElement, FALSE, 0)
        ELSE OtherStep,
        IF enabled THEN (IF trip = 1 THEN 2 ELSE 0)
        ELSE (IF trip = 2 THEN 3 ELSE 1))

\* navigator.gpu.requestAdapter() settles for the invocation in slot i
AdapterResolve(i, outcome) ==
  /\ seq[i].pc = "w_adapter"
  /\ LET a == AdapterSettled(outcome) IN
     Do([Cur EXCEPT !.webGPUSupportCache = a.cache,
                    !.seq[i].pc = "mt_probe",
                    !.seq[i].res = a.res,
                    !.mq = Append(@, i)],
        OtherStep,
        TripKept)

\* the 10 s timeout of a readiness attempt fires first
ReadyTimeout(i) ==
  /\ seq[i].pc = "w_ready"
  /\ Do(RetryWait(Cur, i), OtherStep, TripKept)

\* the 100 ms callback of a readiness attempt fires
SettleFire(i) ==
  /\ seq[i].pc = "w_settle"
  /\ Do(AfterSettle(Cur, i), OtherStep, TripKept)

\* render() settles for the invocation in slot i; without navigator.gpu it
\* can only fail
RenderSettle(i, outcome) ==
  /\ seq[i].pc = "w_render"
  /\ outcome = "resolve" => gpu
  /\ Do(AfterRender(Cur, i, outcome),
        IF outcome = "resolve" THEN Step("render_resolve", seq[i].video, seq[i].sup, 0)
        ELSE IF outcome = "error" THEN Step("render_error", seq[i].video, seq[i].sup, 0)
        ELSE OtherStep,
        TripKept)

\* a settle-delay timer fires: its callback calls enableUpscaling
TimerFire ==
  /\ timers > 0
  /\ Do(enableUpscaling([Cur EXCEPT !.timers = @ - 1]),
        Step("timer", NoVideo, FALSE, 0), TripKept)

\* the document enters or leaves fullscreen; the fullscreenchange event is
\* dispatched to the listener if it is registered
FullscreenChange ==
  /\ LET S == [Cur EXCEPT !.fullscreenElement = ~fullscreenElement,
                          !.layout.rt = 0]
         U == FullscreenListeners(S, fsListeners)
         N == IF layout.listenerSetup THEN onLayoutFullscreenChange(U) ELSE U
     IN Do(N,
           Step(IF S.fullscreenElement THEN "fs_enter" ELSE "fs_exit",
                currentVideoElement, FALSE, N.timers - timers),
           0)

\* the host page mounts its fullscreen-sized element while in fullscreen and
\* removes it some time after fullscreen was left
HostLayout ==
  /\ playerArea
  /\ fsLayout \/ fullscreenElement
  /\ Do([Cur EXCEPT !.fsLayout = ~fsLayout, !.layout.rt = 0], OtherStep, 0)

\* apply(enabled) of the layout module, called by the settings callback;
\* observation: apply(true) taken on a watch page outside fullscreen with the
\* layout not classic starts a round trip, apply(false) right after it ends it
ApplyLayout(enabled) ==
  /\ enabled \in BOOLEAN
  /\ LET starts == /\ enabled /\ isWatchPage(Cur) /\ ~isFullscreenMode(Cur)
                   /\ layout.marker # LAYOUT_CLASSIC
         N == applyLayout(Cur, enabled)
     IN Do([N EXCEPT
              !.layout.rt = IF starts THEN 1
                            ELSE IF ~enabled /\ layout.rt = 1 THEN 2 ELSE 0,
              !.layout.snap = IF starts
                              THEN [bottom |-> layout.bottom, cls |-> layout.cls]
                              ELSE IF ~enabled /\ layout.rt = 1 THEN layout.snap
                              ELSE [bottom |-> <<>>, cls |-> N.layout.cls]],
           OtherStep, 0)

\* the 100 ms timer of the layout module's fullscreen listener fires
LayoutTimerFire ==
  /\ layout.timers > 0
  /\ Do(restoreClassicLayout([Cur EXCEPT !.layout.timers = @ - 1, !.layout.rt = 0]),
        OtherStep, 0)

\* the host page renders the sidebar
HostMountSidebar ==
  /\ ~layout.sidebar
  /\ Do([Cur EXCEPT !.layout.sidebar = TRUE, !.layout.rt = 0], OtherStep, 0)

\* the host page appends a section to the bottom area
HostAddSection(x) ==
  /\ x \notin Range(layout.bottom) \cup Range(layout.contained)
  /\ Do([Cur EXCEPT !.layout.bottom = Append(@, x), !.layout.rt = 0], OtherStep, 0)

\* the host page mounts the player
HostMountPlayer ==
  /\ ~playerArea
  /\ Do(NodeAdded([Cur EXCEPT !.playerArea = TRUE]), OtherStep, 0)

\* the host page inserts a video element into the player
HostAddVideo(v) ==
  /\ playerArea
  /\ video[v].where = "out"
  /\ LET S == NodeAdded([Cur EXCEPT !.video[v].where = "root"])
         N == AddedObservers(S, observers)
     IN Do(N, OtherStep, 0)

\* the host page removes a video element from its parent
HostRemoveVideo(v) ==
  /\ video[v].where # "out"
  /\ Do([Cur EXCEPT !.video[v].where = "out"], OtherStep, 0)

\* the host page sets video.src to a media source; the element either starts
\* over without decoded dimensions or still reports dimensions when the
\* observer runs
HostSetSrc(v, s, keep) ==
  /\ s # video[v].src
  /\ LET S == IF keep
              THEN [Cur EXCEPT !.video[v].src = s]
              ELSE [Cur EXCEPT !.video[v].src = s,
                               !.video[v].dims = FALSE,
                               !.video[v].readyState = 0]
         N == IF InPlayerArea(S, v) THEN SrcObservers(S, v, observers) ELSE S
     IN Do(N, OtherStep, 0)

\* the element loads its metadata; loadedmetadata and loadeddata fire
HostLoad(v) ==
  /\ video[v].src # 0
  /\ video[v].readyState < HAVE_METADATA
  /\ Do([Cur EXCEPT
           !.video[v].readyState = HAVE_METADATA,
           !.video[v].dims = TRUE,
           !.seq = [i \in Slots |->
                      IF seq[i].pc = "w_ready" /\ seq[i].video = v
                      THEN [seq[i] EXCEPT !.pc = "w_settle"]
                      ELSE seq[i]]],
        OtherStep, 0)

\* loadSettings() resolves for an applySettings() call made by the body
\* observer: the stored setting, which is the one the last apply call was
\* given, is applied again (index.ts lines 21-50)
BodyApply ==
  /\ body.pending > 0
  /\ Do(apply([Cur EXCEPT !.body.pending = @ - 1], currentEnabled),
        Step("body", NoVideo, FALSE, 0), TripKept)

\* the single-page application navigates
Navigate ==
  /\ Do([Cur EXCEPT !.path = IF path = "watch" THEN "other" ELSE "watch"], OtherStep, 0)

\* apply(enabled) of addNicoRankButton.ts, called by the settings callback
ApplyNicoRank(enabled) ==
  /\ Do([applyNicoRank(Cur, enabled) EXCEPT
           !.nicoRank.runs = IF enabled THEN (IF @ < 2 THEN @ + 1 ELSE 2) ELSE 0,
           !.nicoRank.pure = IF enabled THEN @ ELSE TRUE],
        Step(IF enabled THEN "rank_true" ELSE "rank_false", NoVideo, FALSE, 0), 0)

Marked(items) == {i \in 1..Len(items) : items[i] = CONTAINER_MARKER}

HostTouched(S) ==
  [S EXCEPT !.nicoRank.runs = 0,
            !.nicoRank.pure = @ /\ Marked(S.nicoRank.items) = {}]

\* the host page renders the scroll container of the sidebar
HostMountSimplebar ==
  /\ ~nicoRank.content
  /\ Do([HostTouched(Cur) EXCEPT !.nicoRank.content = TRUE], OtherStep, 0)

\* the host page renders one more element of the menu, anywhere in it
HostInsertItem(k, i) ==
  /\ Len(nicoRank.items) < MaxItems
  /\ i <= Len(nicoRank.items)
  /\ Do([HostTouched(Cur) EXCEPT
           !.nicoRank.items = SubSeq(@, 1, i) \o <<k>> \o SubSeq(@, i + 1, Len(@))],
        OtherStep, 0)

\* the host page removes one of its elements from the menu
HostRemoveItem(i) ==
  /\ i \in 1..Len(nicoRank.items)
  /\ nicoRank.items[i] # CONTAINER_MARKER
  /\ Do([HostTouched(Cur) EXCEPT
           !.nicoRank.items = SubSeq(@, 1, i - 1) \o SubSeq(@, i + 1, Len(@))],
        OtherStep, 0)

\* client-side navigation between /video_top and another page
NavigateTop ==
  /\ Do([Cur EXCEPT !.path = IF path = "video_top" THEN "other" ELSE "video_top",
                    !.nicoRank.runs = 0], OtherStep, 0)

(* --------------------------- specification ----------------------------- *)
\* the element the host page inserts, loads, re-sources and removes
DynVideos == {"v1"}

\* an element this module has not touched
Untouched(where, src, readyState) ==
  [where |-> where, src |-> src, dims |-> readyState >= HAVE_METADATA,
   readyState |-> readyState, display |-> "", marker |-> "absent"]

\* the state after the module is loaded, for the given paths and the given
\* second element; the first element is created without a source, outside
\* the document
InitWith(paths, seconds) ==
  /\ path \in paths
  /\ fullscreenElement = FALSE
  /\ fsLayout = FALSE
  /\ playerArea \in BOOLEAN
  /\ gpu \in BOOLEAN
  /\ \E second \in seconds :
       video = [v \in Videos |->
                  IF v \in DynVideos THEN Untouched("out", 0, 0)
                  ELSE IF playerArea THEN second
                  ELSE Untouched("out", second.src, second.readyState)]
  /\ canvasAt = NoCanvas /\ canvasCount = 0 /\ canvasStyle = NoVideo
  /\ webGPUSupportCache = "null"
  /\ currentVideoSrc = NullSrc
  /\ currentVideoElement = NoVideo
  /\ currentEnabled = FALSE
  /\ videoObserver = FALSE
  /\ fullscreenListenerSetup = FALSE
  /\ seq = [i \in Slots |-> IdleSeq]
  /\ timers = 0
  /\ adapterCalls = 0
  /\ pipes = 0
  /\ last = OtherStep
  /\ trip = 0
  /\ layout = LayoutWith(TRUE, <<"info", "detail", "ads">>,
                         [k \in ClassKinds |-> <<"std">>])
  /\ nicoRank = NoSidebar
  /\ body = NoBodyObserver
  /\ waiter = IdleWaiter /\ fsListeners = 0 /\ observers = 0

\* a watch page whose player holds, besides the content video, the empty
\* placeholder video
Init == InitWith({"watch"}, {Untouched("root", 0, 0)})

Next ==
  \/ \E e \in BOOLEAN : Apply(e)
  \/ \E i \in Slots, o \in AdapterOutcomes : AdapterResolve(i, o)
  \/ \E i \in Slots : ReadyTimeout(i)
  \/ \E i \in Slots : SettleFire(i)
  \/ \E i \in Slots, o \in RenderOutcomes : RenderSettle(i, o)
  \/ TimerFire
  \/ FullscreenChange
  \/ HostMountPlayer
  \/ \E v \in DynVideos : HostAddVideo(v)
  \/ \E v \in DynVideos : HostRemoveVideo(v)
  \/ \E v \in DynVideos, s \in 1..MaxSrc, k \in BOOLEAN : HostSetSrc(v, s, k)
  \/ \E v \in DynVideos : HostLoad(v)

Spec == Init /\ [][Next]_vars

\* the same page with single-page navigation between a watch page and another
\* page; the module may also be loaded on the other page
\* page, with WebGPU and with the player mounted; the module may also be
\* loaded on the other page
InitNav ==
  /\ InitWith({"watch", "other"}, {Untouched("root", 0, 0)})
  /\ gpu
  /\ playerArea

NextNav ==
  \/ \E e \in BOOLEAN : Apply(e)
  \/ \E i \in Slots, o \in AdapterOutcomes : AdapterResolve(i, o)
  \/ \E i \in Slots : ReadyTimeout(i)
  \/ \E i \in Slots : SettleFire(i)
  \/ \E i \in Slots, o \in RenderOutcomes : RenderSettle(i, o)
  \/ TimerFire
  \/ FullscreenChange
  \/ \E v \in DynVideos : HostAddVideo(v)
  \/ \E v \in DynVideos, s \in 1..MaxSrc, k \in BOOLEAN : HostSetSrc(v, s, k)
  \/ \E v \in DynVideos : HostLoad(v)
  \/ Navigate

SpecNav == InitNav /\ [][NextNav]_vars

\* the Media Locator on its own: any two video elements, each detached, in the
\* player root or in the advertisement container, with any source and any
\* readyState, with decoded dimensions only once metadata is there; the one
\* step is a call of getVideoElement(), whose result is recorded in last.v
VideoStates ==
  {vd \in [where : Places, src : Srcs, dims : BOOLEAN, readyState : ReadyStates,
           display : {""}, marker : {"absent"}] :
     vd.dims => vd.readyState >= HAVE_METADATA}

InitLocator ==
  /\ path = "watch" /\ fullscreenElement = FALSE /\ fsLayout = FALSE
  /\ playerArea \in BOOLEAN /\ gpu = TRUE
  /\ video \in [Videos -> VideoStates]
  /\ canvasAt = NoCanvas /\ canvasCount = 0 /\ canvasStyle = NoVideo /\ webGPUSupportCache = "null"
  /\ currentVideoSrc = NullSrc /\ currentVideoElement = NoVideo
  /\ currentEnabled = FALSE /\ videoObserver = FALSE
  /\ fullscreenListenerSetup = FALSE
  /\ seq = [i \in Slots |-> IdleSeq]
  /\ timers = 0 /\ adapterCalls = 0 /\ pipes = 0
  /\ last = OtherStep /\ trip = 0
  /\ layout = LayoutWith(TRUE, <<"info", "detail", "ads">>,
                         [k \in ClassKinds |-> <<"std">>])
  /\ nicoRank = NoSidebar
  /\ body = NoBodyObserver
  /\ waiter = IdleWaiter /\ fsListeners = 0 /\ observers = 0

Locate ==
  /\ last.op # "locate"
  /\ Do(Cur, Step("locate", getVideoElement(Cur), FALSE, 0), 0)

NextLocator == Locate

SpecLocator == InitLocator /\ [][NextLocator]_vars

\* createUpscaledCanvas on its own: any two video elements as for the Media
\* Locator, no canvas in the document or one, after either video and with
\* the geometry of either; the one step is a call of createUpscaledCanvas(v),
\* whose result is recorded in last.op
InitCanvas ==
  /\ path = "watch" /\ fullscreenElement = FALSE /\ fsLayout = FALSE
  /\ playerArea = TRUE /\ gpu = TRUE
  /\ video \in [Videos -> VideoStates]
  /\ \/ canvasAt = NoCanvas /\ canvasCount = 0 /\ canvasStyle = NoVideo
     \/ canvasAt \in Videos /\ canvasCount = 1 /\ canvasStyle \in Videos
  /\ webGPUSupportCache = "null"
  /\ currentVideoSrc = NullSrc /\ currentVideoElement = NoVideo
  /\ currentEnabled = FALSE /\ videoObserver = FALSE
  /\ fullscreenListenerSetup = FALSE
  /\ seq = [i \in Slots |-> IdleSeq]
  /\ timers = 0 /\ adapterCalls = 0 /\ pipes = 0
  /\ last = OtherStep /\ trip = 0
  /\ layout = LayoutWith(TRUE, <<"info", "detail", "ads">>,
                         [k \in ClassKinds |-> <<"std">>])
  /\ nicoRank = NoSidebar
  /\ body = NoBodyObserver
  /\ waiter = IdleWaiter /\ fsListeners = 0 /\ observers = 0

CreateCanvas(v) ==
  /\ last.op = "other"
  /\ LET c == createUpscaledCanvas(Cur, v) IN
     Do(c.S, Step(IF c.ok THEN "canvas_ok" ELSE "canvas_err", v, FALSE, 0), 0)

NextCanvas == \E v \in Videos : CreateCanvas(v)

SpecCanvas == InitCanvas /\ [][NextCanvas]_vars

\* the page with WebGPU, an adapter and a render() that succeeds, for progress:
\* the settings are re-applied (index.ts, body observer and storage listener),
\* the host loads and re-sources the content video; what the browser has
\* pending (the adapter request, render(), media timers, settle timers) is
\* eventually delivered
Trigger ==
  /\ Do(apply(Cur, TRUE), Step("trigger", NoVideo, FALSE, 0), 0)

InitLive ==
  /\ InitWith({"watch"}, {Untouched("root", 0, 0)})
  /\ gpu
  /\ playerArea

NextLive ==
  \/ Trigger
  \/ Apply(FALSE)
  \/ \E i \in Slots : AdapterResolve(i, "adapter")
  \/ \E i \in Slots : ReadyTimeout(i)
  \/ \E i \in Slots : SettleFire(i)
  \/ \E i \in Slots : RenderSettle(i, "resolve")
  \/ TimerFire
  \/ \E v \in DynVideos : HostAddVideo(v)
  \/ \E v \in DynVideos, s \in 1..MaxSrc, k \in BOOLEAN : HostSetSrc(v, s, k)
  \/ \E v \in DynVideos : HostLoad(v)

SpecLive ==
  /\ InitLive
  /\ [][NextLive]_vars
  /\ WF_vars(\E i \in Slots : AdapterResolve(i, "adapter"))
  /\ WF_vars(\E i \in Slots : ReadyTimeout(i))
  /\ WF_vars(\E i \in Slots : SettleFire(i))
  /\ WF_vars(\E i \in Slots : RenderSettle(i, "resolve"))
  /\ WF_vars(TimerFire)

\* one start sequence at a time, to follow one call of waitForVideoReady from
\* its first attempt to its result: the next start waits until the sequence
\* in flight has ended; the 10 s and 100 ms timers of the waiter in slot 1
\* are eventually delivered
AllIdle == \A i \in Slots : seq[i].pc = "idle"

TriggerAlone == AllIdle /\ Trigger

TimerFireAlone == AllIdle /\ TimerFire

NextWait ==
  \/ TriggerAlone
  \/ TimerFireAlone
  \/ \E i \in Slots, o \in AdapterOutcomes : AdapterResolve(i, o)
  \/ \E i \in Slots : ReadyTimeout(i)
  \/ \E i \in Slots : SettleFire(i)
  \/ \E i \in Slots, o \in RenderOutcomes : RenderSettle(i, o)
  \/ \E v \in DynVideos : HostAddVideo(v)
  \/ \E v \in DynVideos, s \in 1..MaxSrc, k \in BOOLEAN : HostSetSrc(v, s, k)
  \/ \E v \in DynVideos : HostLoad(v)

SpecWait ==
  /\ InitLive
  /\ [][NextWait]_vars
  /\ WF_vars(ReadyTimeout(1))
  /\ WF_vars(SettleFire(1))

\* the content script with its body observer connected (index.ts, initialize):
\* every node added under document.body, by the host page or by the start
\* sequence itself, makes the observer apply the settings again; what is
\* pending in the browser (loadSettings(), the adapter request, the waiter's
\* timers, render(), the settle timers) is eventually delivered
InitFeedback ==
  /\ path = "watch" /\ fullscreenElement = FALSE /\ fsLayout = FALSE
  /\ playerArea = TRUE /\ gpu = TRUE
  /\ video = [v \in Videos |->
               IF v \in DynVideos THEN Untouched("out", 0, 0)
               ELSE Untouched("root", 0, 0)]
  /\ canvasAt = NoCanvas /\ canvasCount = 0 /\ canvasStyle = NoVideo
  /\ webGPUSupportCache = "null"
  /\ currentVideoSrc = NullSrc /\ currentVideoElement = NoVideo
  /\ currentEnabled = FALSE /\ videoObserver = FALSE
  /\ fullscreenListenerSetup = FALSE
  /\ seq = [i \in Slots |-> IdleSeq]
  /\ timers = 0 /\ adapterCalls = 0 /\ pipes = 0
  /\ last = OtherStep /\ trip = 0
  /\ layout = LayoutWith(TRUE, <<"info", "detail", "ads">>,
                         [k \in ClassKinds |-> <<"std">>])
  /\ nicoRank = NoSidebar
  /\ body = [observing |-> TRUE, pending |-> 0]
  /\ waiter = IdleWaiter /\ fsListeners = 0 /\ observers = 0

\* what the host page and the settings do, outside fullscreen
External ==
  \/ \E e \in BOOLEAN : Apply(e)
  \/ \E v \in DynVideos : HostAddVideo(v)
  \/ \E v \in DynVideos : HostRemoveVideo(v)
  \/ \E v \in DynVideos, s \in 1..MaxSrc, k \in BOOLEAN : HostSetSrc(v, s, k)
  \/ \E v \in DynVideos : HostLoad(v)

NextFeedback ==
  \/ External
  \/ BodyApply
  \/ \E i \in Slots, o \in AdapterOutcomes : AdapterResolve(i, o)
  \/ \E i \in Slots : ReadyTimeout(i)
  \/ \E i \in Slots : SettleFire(i)
  \/ \E i \in Slots, o \in RenderOutcomes : RenderSettle(i, o)
  \/ TimerFire

SpecFeedback ==
  /\ InitFeedback
  /\ [][NextFeedback]_vars
  /\ WF_vars(BodyApply)
  /\ WF_vars(TimerFire)
  /\ \A i \in Slots :
       /\ WF_vars(\E o \in AdapterOutcomes : AdapterResolve(i, o))
       /\ WF_vars(ReadyTimeout(i))
       /\ WF_vars(SettleFire(i))
       /\ WF_vars(\E o \in RenderOutcomes : RenderSettle(i, o))

\* a watch page whose player holds two video elements that stay where they
\* are (neither is inserted, removed or moved); the host page gives either a
\* source and either loads, so the element the locator returns can change
\* from one to the other while both keep their place among their siblings
InitSiblings ==
  /\ path = "watch" /\ fullscreenElement = FALSE /\ fsLayout = FALSE
  /\ playerArea = TRUE /\ gpu = TRUE
  /\ video = [v \in Videos |-> Untouched("root", 0, 0)]
  /\ canvasAt = NoCanvas /\ canvasCount = 0 /\ canvasStyle = NoVideo
  /\ webGPUSupportCache = "null"
  /\ currentVideoSrc = NullSrc /\ currentVideoElement = NoVideo
  /\ currentEnabled = FALSE /\ videoObserver = FALSE
  /\ fullscreenListenerSetup = FALSE
  /\ seq = [i \in Slots |-> IdleSeq]
  /\ timers = 0 /\ adapterCalls = 0 /\ pipes = 0
  /\ last = OtherStep /\ trip = 0
  /\ layout = LayoutWith(TRUE, <<"info", "detail", "ads">>,
                         [k \in ClassKinds |-> <<"std">>])
  /\ nicoRank = NoSidebar
  /\ body = NoBodyObserver
  /\ waiter = IdleWaiter /\ fsListeners = 0 /\ observers = 0

NextSiblings ==
  \/ \E e \in BOOLEAN : Apply(e)
  \/ \E i \in Slots, o \in AdapterOutcomes : AdapterResolve(i, o)
  \/ \E i \in Slots : ReadyTimeout(i)
  \/ \E i \in Slots : SettleFire(i)
  \/ \E i \in Slots, o \in RenderOutcomes : RenderSettle(i, o)
  \/ TimerFire
  \/ \E v \in Videos, s \in 1..MaxSrc, k \in BOOLEAN : HostSetSrc(v, s, k)
  \/ \E v \in Videos : HostLoad(v)

SpecSiblings == InitSiblings /\ [][NextSiblings]_vars

\* one call of waitForVideoReady followed through the closures of its
\* attempts: the start sequence calls it for the element it located, whatever
\* the host page has made of that element since; the element dispatches its
\* media events, the host page changes its source, and every timer set by an
\* attempt fires, the 10 s one also after the attempt has continued
WaitCall(v) ==
  /\ waiter.video = NoVideo
  /\ Do(waitAttempt([Cur EXCEPT !.waiter.video = v], 0), OtherStep, 0)

\* the element fetches its metadata (loadedmetadata), then its first frame
\* (loadeddata)
MediaEvent(v, e) ==
  /\ video[v].src # 0
  /\ IF e = "loadedmetadata" THEN video[v].readyState < HAVE_METADATA
                              ELSE video[v].readyState = HAVE_METADATA
  /\ LET S == [Cur EXCEPT !.video[v].readyState =
                             IF e = "loadedmetadata" THEN HAVE_METADATA ELSE 4,
                          !.video[v].dims = TRUE]
     IN Do(IF waiter.video = v THEN DispatchMedia(S, e, 0) ELSE S, OtherStep, 0)

\* the 10 s timer of attempt n fires; it is late when the attempt has
\* continued from its handler already
AttemptTimeout(n) ==
  /\ waiter.att[n].timeout
  /\ Do(onReadyTimeout(Cur, n),
        IF waiter.att[n].resolved THEN Step("late_timeout", waiter.video, FALSE, 0)
        ELSE OtherStep,
        0)

\* the 100 ms timer set by the handler of attempt n fires

AttemptSettle(n) ==
  /\ waiter.att[n].settle
  /\ Do(onSettle(Cur, n), OtherStep, 0)

InitAttempt ==
  /\ path = "watch" /\ fullscreenElement = FALSE /\ fsLayout = FALSE
  /\ playerArea = TRUE /\ gpu = TRUE
  /\ \E s \in Srcs, r \in ReadyStates :
       video = [v \in Videos |->
                 IF v \in DynVideos THEN Untouched("root", s, IF s = 0 THEN 0 ELSE r)
                 ELSE Untouched("root", 0, 0)]
  /\ canvasAt = NoCanvas /\ canvasCount = 0 /\ canvasStyle = NoVideo
  /\ webGPUSupportCache = "null"
  /\ currentVideoSrc = NullSrc /\ currentVideoElement = NoVideo
  /\ currentEnabled = FALSE /\ videoObserver = FALSE
  /\ fullscreenListenerSetup = FALSE
  /\ seq = [i \in Slots |-> IdleSeq]
  /\ timers = 0 /\ adapterCalls = 0 /\ pipes = 0
  /\ last = OtherStep /\ trip = 0
  /\ layout = LayoutWith(TRUE, <<"info", "detail", "ads">>,
                         [k \in ClassKinds |-> <<"std">>])
  /\ nicoRank = NoSidebar
  /\ body = NoBodyObserver
  /\ waiter = IdleWaiter /\ fsListeners = 0 /\ observers = 0

NextAttempt ==
  \/ \E v \in DynVideos : WaitCall(v)
  \/ \E v \in DynVideos, e \in Events : MediaEvent(v, e)
  \/ \E n \in Attempts : AttemptTimeout(n)
  \/ \E n \in Attempts : AttemptSettle(n)
  \/ \E v \in DynVideos, s \in 1..MaxSrc, k \in BOOLEAN : HostSetSrc(v, s, k)

SpecAttempt ==
  /\ InitAttempt
  /\ [][NextAttempt]_vars
  /\ \A n \in Attempts : WF_vars(AttemptTimeout(n)) /\ WF_vars(AttemptSettle(n))

\* the layout module on a watch page: the grid parent carries one or two
\* classes of each of the three kinds, the bottom area any of its sections so
\* far, the sidebar is rendered or not yet
ClassLists == {<<"std">>, <<"alt">>, <<"std", "alt">>, <<"alt", "std">>}
BottomLists == {<<>>, <<"info">>, <<"info", "detail">>, <<"detail", "ads">>}

InitLayout ==
  /\ path = "watch" /\ fullscreenElement = FALSE /\ fsLayout = FALSE
  /\ playerArea = TRUE /\ gpu = TRUE
  /\ video = [v \in Videos |-> Untouched("out", 0, 0)]
  /\ canvasAt = NoCanvas /\ canvasCount = 0 /\ canvasStyle = NoVideo /\ webGPUSupportCache = "null"
  /\ currentVideoSrc = NullSrc /\ currentVideoElement = NoVideo
  /\ currentEnabled = FALSE /\ videoObserver = FALSE
  /\ fullscreenListenerSetup = FALSE
  /\ seq = [i \in Slots |-> IdleSeq]
  /\ timers = 0 /\ adapterCalls = 0 /\ pipes = 0
  /\ last = OtherStep /\ trip = 0
  /\ \E sb \in BOOLEAN, b \in BottomLists, c \in [ClassKinds -> ClassLists] :
       layout = LayoutWith(sb, b, c)
  /\ nicoRank = NoSidebar
  /\ body = NoBodyObserver
  /\ waiter = IdleWaiter /\ fsListeners = 0 /\ observers = 0

NextLayout ==
  \/ \E e \in BOOLEAN : ApplyLayout(e)
  \/ FullscreenChange
  \/ LayoutTimerFire
  \/ HostLayout
  \/ HostMountSidebar
  \/ \E x \in Sections : HostAddSection(x)

SpecLayout == InitLayout /\ [][NextLayout]_vars

\* addNicoRankButton.ts on /video_top or another page: the menu of the
\* sidebar holds up to MaxItems elements of the host, the scroll container
\* is rendered or not yet
HostMenus ==
  UNION {[1..n -> HostItems] : n \in 0..MaxItems}

InitRank ==
  /\ path \in {"video_top", "other"}
  /\ fullscreenElement = FALSE /\ fsLayout = FALSE
  /\ playerArea = FALSE /\ gpu = TRUE
  /\ video = [v \in Videos |-> Untouched("out", 0, 0)]
  /\ canvasAt = NoCanvas /\ canvasCount = 0 /\ canvasStyle = NoVideo /\ webGPUSupportCache = "null"
  /\ currentVideoSrc = NullSrc /\ currentVideoElement = NoVideo
  /\ currentEnabled = FALSE /\ videoObserver = FALSE
  /\ fullscreenListenerSetup = FALSE
  /\ seq = [i \in Slots |-> IdleSeq]
  /\ timers = 0 /\ adapterCalls = 0 /\ pipes = 0
  /\ last = OtherStep /\ trip = 0
  /\ layout = LayoutWith(TRUE, <<"info", "detail", "ads">>,
                         [k \in ClassKinds |-> <<"std">>])
  /\ \E c \in BOOLEAN, m \in HostMenus : nicoRank = SidebarWith(c, m)
  /\ body = NoBodyObserver
  /\ waiter = IdleWaiter /\ fsListeners = 0 /\ observers = 0

NextRank ==
  \/ \E e \in BOOLEAN : ApplyNicoRank(e)
  \/ HostMountSimplebar
  \/ \E k \in HostItems, i \in 0..MaxItems : HostInsertItem(k, i)
  \/ \E i \in 1..(2 * MaxItems) : HostRemoveItem(i)
  \/ NavigateTop

SpecRank == InitRank /\ [][NextRank]_vars

TypeOK ==
  /\ path \in {"watch", "other", "video_top"}
  /\ canvasAt \in Videos \cup {NoCanvas}
  /\ canvasCount \in 0..1
  /\ canvasCount = 0 <=> canvasAt = NoCanvas
  /\ canvasStyle \in Videos \cup {NoVideo}
  /\ body.pending \in 0..MaxPending
  /\ fsListeners \in 0..MaxListeners
  /\ observers \in 0..MaxListeners
  /\ waiter.video \in Videos \cup {NoVideo}
  /\ waiter.delivered \in 0..MaxCount
  /\ waiter.result \in {"none", "ok", "err"}
  /\ \A n \in Attempts :
       /\ waiter.att[n].listeners \subseteq Events
       /\ waiter.att[n].started \in 0..MaxCount
       /\ waiter.att[n].outcomes \in 0..MaxCount
  /\ webGPUSupportCache \in {"null", "true", "false"}
  /\ currentVideoSrc \in Srcs \cup {NullSrc}
  /\ currentVideoElement \in Videos \cup {NoVideo}
  /\ \A i \in Slots : seq[i].pc \in {"idle", "w_adapter", "w_ready", "w_settle", "w_render"}
  /\ timers \in 0..MaxTimers
  /\ adapterCalls \in 0..MaxSeqs
  /\ pipes \in 0..MaxSeqs

(* ------------------------------ claims --------------------------------- *)
\* render loops that have been started and not stopped: those of finished
\* start sequences and those of sequences still awaiting render()
LivePipelines == pipes + Cardinality({i \in Slots : seq[i].live})

\* no start sequence in flight and no timer pending
Quiescent == timers = 0 /\ \A i \in Slots : seq[i].pc = "idle"

SurfaceAbsent == canvasAt = NoCanvas

\* C1: at most one render pipeline is live at any time, whatever the
\* interleaving of apply(true) calls, restarts and suspended start sequences.
C1_AtMostOnePipeline == LivePipelines <= 1

\* C2: after apply(false); apply(true); apply(false) called one right after the
\* other, once every continuation and timer has run, the DOM is as if apply had
\* never been called: no surface, no hidden video, no 'active' marker.
C2_RoundTripLeavesNoTrace ==
  (trip = 3 /\ Quiescent) =>
    /\ SurfaceAbsent
    /\ \A v \in Videos : video[v].display # "none" /\ video[v].marker # UPSCALING_ACTIVE

\* C3: a start sequence that was superseded while it was suspended does not
\* become Active when render() resolves: its video is not hidden, not marked
\* 'active' and not recorded as the current element.
C3_SupersededNeverActivates ==
  (last.op = "render_resolve" /\ last.sup) =>
    /\ video[last.v].display # "none"
    /\ video[last.v].marker # UPSCALING_ACTIVE
    /\ currentVideoElement # last.v

\* C4: when apply(false) returns, the surface is out of the document, every
\* video in the player root is shown and marked 'inactive', the recorded
\* element and source are null and the video observer is disconnected.
C4_DisableTearsDown ==
  last.op = "apply_false" =>
    /\ SurfaceAbsent
    /\ \A v \in Videos : InPlayerArea(Cur, v) =>
         video[v].display = "" /\ video[v].marker = UPSCALING_INACTIVE
    /\ currentVideoElement = NoVideo
    /\ currentVideoSrc = NullSrc
    /\ ~videoObserver

\* apply(false) has just torn down while a start sequence was awaiting render()
\* on the surface it created, and the content video is in the player root
C4_Witness ==
  /\ last.op = "apply_false"
  /\ InPlayerArea(Cur, "v1")
  /\ video["v1"].marker = UPSCALING_INACTIVE
  /\ \E i \in Slots : seq[i].pc = "w_render" /\ ~seq[i].live

\* C5: once the probe has resolved to Unsupported and no earlier start
\* sequence is left, no step creates a surface or invokes render().
C5_UnsupportedIsTerminal ==
  [][(webGPUSupportCache = "false" /\ \A i \in Slots : seq[i].pc = "idle") =>
       /\ canvasAt' # NoCanvas => canvasAt # NoCanvas
       /\ \A i \in Slots : seq'[i].pc # "w_render"]_vars

\* C6: after the probe has resolved, requestAdapter() is not called again:
\* the number of adapter requests does not grow once the cache is set.
C6_NoProbeAfterResolution ==
  [][webGPUSupportCache # "null" => adapterCalls' = adapterCalls]_vars

\* two start sequences have passed the probe on one adapter request
C6_Witness ==
  /\ webGPUSupportCache = "true"
  /\ adapterCalls = 1
  /\ \A i \in 1..2 : seq[i].pc = "w_render"

\* C7: once the capability cache has left null it never changes again.
C7_CacheSetOnce ==
  [][webGPUSupportCache # "null" => webGPUSupportCache' = webGPUSupportCache]_vars

\* C8: when fullscreen is entered while a session is recorded, the listener
\* has, on return, removed the surface, shown the source video, marked it
\* 'inactive' and cleared the recorded element and source.
C8_FullscreenEntryTearsDown ==
  (last.op = "fs_enter" /\ last.v # NoVideo) =>
    /\ SurfaceAbsent
    /\ video[last.v].display = ""
    /\ video[last.v].marker = UPSCALING_INACTIVE
    /\ currentVideoElement = NoVideo
    /\ currentVideoSrc = NullSrc

\* fullscreen has just been entered over a recorded session
C8_Witness ==
  /\ last.op = "fs_enter"
  /\ last.v # NoVideo
  /\ fullscreenElement

C10_ActiveOnCurrentSource ==
  (currentVideoElement # NoVideo
     /\ video[currentVideoElement].marker = UPSCALING_ACTIVE) =>
    currentVideoSrc = video[currentVideoElement].src

\* what apply(true) may write: the setting, and the observation variables
ApplyFrame ==
  UNCHANGED <<path, fullscreenElement, fsLayout, playerArea, gpu, video, canvasAt,
              webGPUSupportCache, currentVideoSrc, currentVideoElement,
              videoObserver, fullscreenListenerSetup, seq, timers,
              adapterCalls, pipes>>

\* C11: apply(true) called while the path is not a watch page changes nothing
\* but the setting: no surface, no style or marker written, no listener and
\* no observer registered, no probe and no render() call.
C11_OffWatchApplyChangesNothing ==
  [][(path = "other" /\ Apply(TRUE)) => ApplyFrame]_vars

\* the feature was enabled off the watch page only, with a ready content video
\* in the player root: nothing was registered, probed or created
C11_Witness ==
  /\ path = "other"
  /\ currentEnabled
  /\ ~fullscreenListenerSetup
  /\ isValidContentVideo(Cur, "v1") /\ InPlayerArea(Cur, "v1")
  /\ video["v1"].readyState >= HAVE_METADATA
  /\ adapterCalls = 0

\* the valid candidates of the Media Locator: valid content videos inside the
\* player root
Candidates == {v \in Videos : InPlayerArea(Cur, v) /\ isValidContentVideo(Cur, v)}

\* position in document order
DocPos(v) == CHOOSE k \in 1..Len(DocOrder) : DocOrder[k] = v

\* C12: with one advertisement video (in the advertisement container, or
\* without decoded dimensions) and one content video (source, dimensions,
\* outside the container) in the player root, getVideoElement returns the
\* content video, whichever of the two comes first in the document.
C12_LocatorSkipsAd ==
  last.op = "locate" =>
    \A c \in Videos : \A a \in Videos \ {c} :
      (/\ video[c].where = "root" /\ video[c].src # 0 /\ video[c].dims
       /\ InPlayerArea(Cur, c) /\ InPlayerArea(Cur, a)
       /\ (video[a].where = "ad" \/ ~video[a].dims))
      => last.v = c

\* the content video comes second, after an advertisement video that is
\* loaded further, and is the one returned
C12_Witness ==
  /\ last.op = "locate" /\ last.v = "v2"
  /\ video["v1"].where = "ad" /\ video["v1"].dims /\ video["v1"].src # 0
  /\ video["v1"].readyState > video["v2"].readyState
  /\ playerArea

\* C13: getVideoElement returns null exactly when the player root is missing
\* or holds no valid candidate; otherwise it returns a valid candidate of the
\* highest readyState, the first in document order among those.
C13_LocatorPicksBest ==
  last.op = "locate" =>
    /\ (last.v = NoVideo) <=> (Candidates = {})
    /\ last.v # NoVideo =>
         /\ last.v \in Candidates
         /\ \A u \in Candidates :
              \/ video[u].readyState < video[last.v].readyState
              \/ /\ video[u].readyState = video[last.v].readyState
                 /\ DocPos(last.v) <= DocPos(u)

\* two valid candidates of equal readyState: the first one is returned
C13_Witness ==
  /\ last.op = "locate" /\ last.v = "v1"
  /\ Candidates = Videos
  /\ video["v1"].readyState = video["v2"].readyState

\* C14: a video element is hidden by this module only while the overlay
\* surface is attached to the document.
C14_HiddenOnlyUnderSurface ==
  \A v \in Videos : video[v].display = "none" => ~SurfaceAbsent

\* start sequences in flight after the synchronous part of enableUpscaling
StartsOneMore(S) ==
  LET N == enableUpscaling(S) IN
  N.full \/ Cardinality(InFlight(N)) = Cardinality(InFlight(S)) + 1

\* C15: when render() has failed with an error other than a cancellation, the
\* surface is out of the document, the video is shown and marked 'inactive',
\* the recorded element and source are null, and a call of enableUpscaling
\* that locates the video again starts a new attempt.
C15_RenderErrorTearsDown ==
  last.op = "render_error" =>
    /\ SurfaceAbsent
    /\ video[last.v].display = ""
    /\ video[last.v].marker = UPSCALING_INACTIVE
    /\ currentVideoElement = NoVideo
    /\ currentVideoSrc = NullSrc
    /\ (isWatchPage(Cur) /\ ~isFullscreenMode(Cur) /\ getVideoElement(Cur) = last.v)
         => StartsOneMore(Cur)

\* render() has just failed for a session that could be started again
C15_Witness ==
  /\ last.op = "render_error"
  /\ getVideoElement(Cur) = last.v
  /\ ~isFullscreenMode(Cur)
  /\ currentEnabled

\* C16: apply(true) over a session that is Active for the located video
\* (same element, same source, marker 'active') changes nothing in the DOM,
\* creates no surface and starts neither a probe nor render().
C16_ApplyIdempotentWhileActive ==
  [][(ActiveForLocated(Cur) /\ Apply(TRUE)) =>
       UNCHANGED <<video, canvasAt, webGPUSupportCache, adapterCalls, seq, pipes,
                   timers, currentVideoElement, currentVideoSrc>>]_vars

\* apply(true) has just been called over an Active session
C16_Witness ==
  /\ last.op = "apply_active"
  /\ currentVideoElement = last.v
  /\ video[last.v].marker = UPSCALING_ACTIVE
  /\ video[last.v].display = "none"
  /\ ~SurfaceAbsent

\* C17: cleanupUpscaling, called from any state and for any argument (a video
\* or null), with or without a session, leaves no surface and no hidden or
\* 'active'-marked video in the player root, and a second call right after the
\* first changes nothing.
C17_CleanupIdempotent ==
  \A v \in Videos \cup {NoVideo} :
    LET A == cleanupUpscaling(Cur, v) IN
    /\ A.canvasAt = NoCanvas
    /\ \A u \in Videos : InPlayerArea(A, u) =>
         A.video[u].display # "none" /\ A.video[u].marker # UPSCALING_ACTIVE
    /\ cleanupUpscaling(A, v) = A

\* the teardown has just run with no session: the last of apply(false);
\* apply(true); apply(false) called one right after the other
C17_Witness ==
  /\ last.op = "apply_false"
  /\ trip = 3
  /\ InPlayerArea(Cur, "v1")
  /\ video["v1"].marker = UPSCALING_INACTIVE
  /\ currentVideoElement = NoVideo

\* the conditions of progress: enabled, watch page, not fullscreen, capability
\* not Unsupported, and the locator finds a content video that is ready
CanStart ==
  /\ currentEnabled
  /\ isWatchPage(Cur)
  /\ ~isFullscreenMode(Cur)
  /\ gpu /\ webGPUSupportCache # "false"
  /\ getVideoElement(Cur) # NoVideo
  /\ waitForVideoReady(Cur, getVideoElement(Cur), 0) = "ok"

\* Active as the user sees it: surface attached, video hidden and marked
ActiveWithSurface ==
  /\ ~SurfaceAbsent
  /\ \E v \in Videos :
       video[v].display = "none" /\ video[v].marker = UPSCALING_ACTIVE

\* C18: after a trigger (apply(true)) taken while the conditions of progress
\* hold, the controller eventually is Active with the surface attached, unless
\* the conditions stop holding first.
C18_EventuallyActive ==
  [](( last.op = "trigger" /\ CanStart) => <>(ActiveWithSurface \/ ~CanStart))

C20_LayoutRoundTrip ==
  layout.rt = 2 =>
    /\ layout.bottom = layout.snap.bottom
    /\ ~layout.container
    /\ ~layout.gridStyle /\ ~layout.sidebarStyle
    /\ \A k \in ClassKinds : Range(layout.cls[k]) = Range(layout.snap.cls[k])

\* C21: the delayed callback scheduled at fullscreen exit does not apply the
\* classic layout while the last apply call was apply(false).
C21_NoDelayedClassicWhenDisabled ==
  [][(LayoutTimerFire /\ ~layout.currentEnabled) =>
       layout'.marker # LAYOUT_CLASSIC]_vars

\* the elements of the menu that hold a ranking link and are menu items
Parents(items) == {i \in 1..Len(items) : items[i] \in RankingParents}

\* items[i] is followed by exactly one marked container
OneButtonAfter(items, i) ==
  /\ i < Len(items) /\ items[i + 1] = CONTAINER_MARKER
  /\ ~(i + 1 < Len(items) /\ items[i + 2] = CONTAINER_MARKER)

\* C22: after apply(true) calls on /video_top with the scroll container of the
\* sidebar rendered and no host mutation since the document held no marked
\* element, every menu item with a ranking link is followed by exactly one
\* marked container and there is no other marked container; after apply(false)
\* no marked element remains.
C22_RankButtonIdempotent ==
  /\ (nicoRank.runs >= 1 /\ nicoRank.pure /\ isVideoTopPage(Cur)
        /\ getSidebarContainer(Cur)) =>
       /\ \A i \in Parents(nicoRank.items) : OneButtonAfter(nicoRank.items, i)
       /\ Cardinality(Marked(nicoRank.items)) = Cardinality(Parents(nicoRank.items))
  /\ last.op = "rank_false" => Marked(nicoRank.items) = {}

\* apply(true) has been called twice in a row over a menu with two adjacent
\* ranking items, one of them with two ranking links
C22_Witness ==
  /\ nicoRank.runs = 2 /\ nicoRank.pure /\ isVideoTopPage(Cur)
  /\ getSidebarContainer(Cur)
  /\ nicoRank.items = <<"rank2", CONTAINER_MARKER, "rank", CONTAINER_MARKER>>

\* C22 as stated, for every /video_top page
C22_AsStated ==
  (nicoRank.runs >= 1 /\ nicoRank.pure /\ isVideoTopPage(Cur)) =>
    \A i \in Parents(nicoRank.items) : OneButtonAfter(nicoRank.items, i)

\* C23: the document holds at most one element with id bn-upscaled-canvas,
\* however many start sequences run or overlap, and a step that leaves more
\* surfaces than it found started with none.
C23_AtMostOneSurface ==
  [][/\ canvasCount' <= 1
     /\ canvasCount' > canvasCount => canvasCount = 0]_vars

\* two start sequences have passed createUpscaledCanvas and await render() on
\* the one surface
C23_Witness ==
  /\ canvasCount = 1
  /\ \A i \in Slots : seq[i].pc = "w_render"

\* C24: while document.fullscreenElement is set no session is Active (no video
\* is hidden or marked 'active'), and no step taken in fullscreen attaches a
\* surface.
C24_NothingActiveInFullscreen ==
  [][fullscreenElement' =>
       /\ \A v \in Videos : /\ video'[v].marker # UPSCALING_ACTIVE
                            /\ video'[v].display # "none"
       /\ fullscreenElement => canvasCount' <= canvasCount]_vars

\* C25: a settle-delay callback that fires while the last apply call was
\* apply(false) begins no start sequence.
C25_NoStartFromTimerWhenDisabled ==
  [][(TimerFire /\ ~currentEnabled) =>
       Cardinality(InFlight(enableUpscaling(Cur))) <= Cardinality(InFlight(Cur))]_vars

\* a call of waitForVideoReady is suspended: listeners and the 10 s timer are
\* registered, or the 100 ms timer of the handler is pending
Waiting(i) == seq[i].pc \in {"w_ready", "w_settle"}

\* C26: a call of waitForVideoReady waits only with a retry count below
\* maxRetries, so at most maxRetries times, and every wait ends: the waiter
\* returns its result (ready or timed out) to the start sequence.
C26_WaiterTerminates ==
  /\ [](\A i \in Slots : Waiting(i) => seq[i].retry < maxRetries)
  /\ (Waiting(1) ~> ~Waiting(1))

\* the waiter is in its third and last wait
C26_Witness ==
  /\ seq[1].pc = "w_ready"
  /\ seq[1].retry = maxRetries - 1
  /\ video[seq[1].video].readyState < HAVE_METADATA

\* C27: a call of createUpscaledCanvas for a video without a parent or without
\* positive decoded dimensions returns the error and leaves the document as it
\* was: no surface is inserted and an existing surface keeps its place and its
\* geometry.
C27_CanvasErrorChangesNothing ==
  [][\A v \in Videos :
       (CreateCanvas(v) /\ (video[v].where = "out" \/ ~video[v].dims)) =>
         /\ last'.op = "canvas_err"
         /\ UNCHANGED <<video, canvasAt, canvasCount, canvasStyle>>]_vars

\* the call has failed for a video in the document without dimensions, with a
\* surface of the other video in the document
C27_Witness ==
  /\ last.op = "canvas_err"
  /\ video[last.v].where # "out"
  /\ ~video[last.v].dims
  /\ canvasCount = 1
  /\ canvasStyle # last.v

\* C28: a start attempt made on a watch page outside fullscreen for which the
\* Media Locator finds no video changes nothing and schedules nothing: the
\* videos, the surface, the start sequences, the capability probe, the
\* recorded session and the observer stay as they are, and no timer is added.
C28_NotFoundChangesNothing ==
  [][(TimerFire /\ isWatchPage(Cur) /\ ~isFullscreenMode(Cur)
        /\ getVideoElement(Cur) = NoVideo) =>
       /\ timers' = timers - 1
       /\ UNCHANGED <<video, canvasAt, canvasCount, canvasStyle, seq, adapterCalls,
                      webGPUSupportCache, currentVideoElement, currentVideoSrc,
                      pipes, currentEnabled, videoObserver,
                      fullscreenListenerSetup>>]_vars

\* a settle-delay callback has just called enableUpscaling with an Active
\* session recorded and no content video in the player
C28_Witness ==
  /\ last.op = "timer"
  /\ isWatchPage(Cur) /\ ~isFullscreenMode(Cur)
  /\ getVideoElement(Cur) = NoVideo
  /\ currentVideoElement # NoVideo
  /\ video[currentVideoElement].marker = UPSCALING_ACTIVE
  /\ ~SurfaceAbsent

\* C29: at most one video is marked 'active'; a video marked 'active' is the
\* recorded element, with a recorded source; while no element is recorded no
\* video is marked 'active' or hidden.
C29_MarkerMatchesRecord ==
  /\ Cardinality({v \in Videos : video[v].marker = UPSCALING_ACTIVE}) <= 1
  /\ \A v \in Videos :
       video[v].marker = UPSCALING_ACTIVE =>
         currentVideoElement = v /\ currentVideoSrc # NullSrc
  /\ currentVideoElement = NoVideo =>
       \A v \in Videos : video[v].marker # UPSCALING_ACTIVE /\ video[v].display # "none"

\* C30: in every quiescent state a surface is attached to the document if and
\* only if some video is hidden and marked 'active'.
C30_NoOrphanSurface ==
  Quiescent =>
    (~SurfaceAbsent <=>
       \E v \in Videos : video[v].display = "none" /\ video[v].marker = UPSCALING_ACTIVE)

\* nothing is in flight: no start sequence, no timer, no applySettings() call
\* of the body observer
QuiescentAll == Quiescent /\ body.pending = 0

\* C31: with the body observer connected, once the host page, the user and the
\* settings stop acting, the feedback of the start sequence's own DOM writes
\* dies out: the system reaches a state with nothing in flight and stays there.
C31_FeedbackTerminates ==
  (<>[][~External]_vars) => <>[]QuiescentAll

\* C32: whenever a video is hidden and marked 'active' and a surface is in the
\* document, the surface is the next sibling of that video, also when the
\* surface was reused for an element other than the one it was inserted after.
C32_SurfaceNextToActive ==
  \A v \in Videos :
    (video[v].display = "none" /\ video[v].marker = UPSCALING_ACTIVE /\ ~SurfaceAbsent)
      => canvasAt = v

\* the attempts that can still continue the wait: registered and not yet
\* continued, or continued by the handler with the 100 ms timer pending
LiveAttempts ==
  {n \in Attempts :
     \/ waiter.att[n].started > 0 /\ ~waiter.att[n].resolved
     \/ waiter.att[n].settle}

\* C33: every attempt of the waiter is registered once and continues exactly
\* once, from its handler or from its 10 s timeout, whichever runs first, and
\* that one removes the listeners; a timeout or a media event that comes
\* after changes nothing; at most one attempt is live at a time and the
\* result reaches the start sequence exactly once.
C33_OneOutcomePerAttempt ==
  /\ [](\A n \in Attempts :
         /\ waiter.att[n].started <= 1
         /\ waiter.att[n].outcomes <= 1
         /\ waiter.att[n].resolved <=> waiter.att[n].outcomes = 1
         /\ waiter.att[n].resolved => waiter.att[n].listeners = {})
  /\ [](/\ waiter.delivered <= 1
        /\ Cardinality(LiveAttempts) <= 1
        /\ waiter.delivered = 1 => LiveAttempts = {})
  /\ [][\A n \in Attempts :
         (AttemptTimeout(n) /\ waiter.att[n].resolved) =>
           /\ waiter' = [waiter EXCEPT !.att[n].timeout = FALSE]
           /\ video' = video]_vars
  /\ [][\A v \in DynVideos, e \in Events :
         (MediaEvent(v, e) /\ \A n \in Attempts : waiter.att[n].listeners = {}) =>
           waiter' = waiter]_vars
  /\ \A n \in Attempts :
       (waiter.att[n].started = 1) ~> (waiter.att[n].outcomes = 1)
  /\ (waiter.video # NoVideo) ~> (waiter.delivered = 1)

\* the 10 s timer of the first attempt has fired late, while the retry chain
\* started from that attempt's 100 ms callback is waiting in its second attempt
C33_Witness ==
  /\ last.op = "late_timeout"
  /\ waiter.att[0].resolved /\ ~waiter.att[0].timeout
  /\ waiter.att[1].started = 1 /\ ~waiter.att[1].resolved

\* C34: navigator.gpu.requestAdapter() is called at most once in a page
\* session, also when a second start sequence probes while the first one is
\* still awaiting the adapter.
C34_SingleAdapterRequest == adapterCalls <= 1

\* C35: at most one fullscreenchange listener of this module is registered,
\* whatever apply calls and path changes have happened, so leaving fullscreen
\* schedules at most one restart.
C35_OneFullscreenListener ==
  /\ fsListeners <= 1
  /\ fullscreenListenerSetup <=> fsListeners = 1
  /\ last.op = "fs_exit" => last.sched <= 1

\* the one listener has scheduled one restart on leaving fullscreen, while two
\* start sequences begun by earlier calls are in flight
C35_Witness ==
  /\ last.op = "fs_exit" /\ last.sched = 1
  /\ fsListeners = 1
  /\ \A i \in Slots : seq[i].pc # "idle"

\* C36: at most one video MutationObserver is connected, and none while the
\* last apply call was apply(false); apply(true) on a watch page with a player
\* root leaves exactly one connected, apply(true) elsewhere adds none and
\* apply(false) leaves none.
C36_OneVideoObserver ==
  /\ [](/\ observers <= 1
        /\ videoObserver <=> observers = 1
        /\ ~currentEnabled => observers = 0)
  /\ [][\A e \in BOOLEAN :
         Apply(e) =>
           observers' = IF ~e THEN 0
                        ELSE IF isWatchPage(Cur) /\ playerArea THEN 1
                        ELSE observers]_vars

\* apply(true) has just run after an apply(false) that followed an earlier
\* start, and one observer is connected again
C36_Witness ==
  /\ trip = 2
  /\ observers = 1
  /\ webGPUSupportCache = "true"
====
